---- MODULE Spec2Model ----
(***************************************************************************)
(* A model of the two-Y-axis combination chart, twoYaxis/src/visual.ts.    *)
(*                                                                         *)
(* The visual is one object (class Visual) with two handlers: the          *)
(* constructor, whose result is Init, and update, which the host calls     *)
(* with a data view and a viewport.  update calls setViewModel, builds the *)
(* d3 scales and redraws the retained SVG groups.                          *)
(*                                                                         *)
(* Conventions.                                                            *)
(*  - A JavaScript value that may be undefined is a sequence of length at  *)
(*    most one: None is undefined, Some(x) is x.                           *)
(*  - A number that d3 computes in floating point is an exact fraction     *)
(*    [n, d] in lowest terms with d > 0; NaN is [n |-> 0, d |-> 0].  The   *)
(*    values and viewports the specifications draw make every such         *)
(*    computation exact in IEEE doubles as well (halves only for the       *)
(*    linear scales; the band scale's roundings agree with the doubles     *)
(*    for every range width below 59).                                     *)
(*  - d3 is the 3.x API the source calls (d3.scale.ordinal, d3.svg.axis).  *)
(*  - The axis groups' tick elements are not modelled, only the groups'    *)
(*    transforms; the line path's "d" is the list of its points, of which  *)
(*    the cardinal spline is a function.                                   *)
(***************************************************************************)
EXTENDS Integers, Sequences, FiniteSets

VARIABLES
    barModel,    \* this.barModel: None until first assigned
    lineModel,   \* this.lineModel: None until first assigned
    svg,         \* attributes of the svg element and of the three axis groups
    barGroup,    \* the rect.bar children of this.barGroup, in document order
    lineGroup,   \* the path.line children of this.lineGroup, in document order
    options,     \* the argument of the last update call (None before the first)
    outcome,     \* "constructed", or how the last update call ended: "ok" | "raised"
    history,     \* what the caller knows of the last two calls (see Update)
    probe        \* a band-scale evaluation (specification SpecBand)

vars == <<barModel, lineModel, svg, barGroup, lineGroup, options, outcome, history, probe>>

-----------------------------------------------------------------------------
(* Bounds of the model *)

\* Rows of a data view drawn by Spec (columns of equal length).
MaxRows == 2

\* Length of each column drawn by SpecFirst (columns of independent lengths).
MaxLen == 2

\* SpecBand: narrowest and widest horizontal range, and most categories, probed.
MinRange == 20

MaxRange == 40

MaxBands == 6

\* The rows Spec builds its data views from: a category with its two measures.
Rows ==
    {[category |-> "A", bar |-> 2, line |-> 1],
     [category |-> "B", bar |-> 1, line |-> 2]}

\* The columns SpecFirst builds its data views from.
Categories == {"A", "B"}

ColumnValues == {0, 1, 2}

Viewports == {[width |-> 100, height |-> 131], [width |-> 127, height |-> 100]}

-----------------------------------------------------------------------------
(* Program constants *)

paddingTop == 30

paddingRight == 50

paddingBottom == 50

paddingLeft == 30

\* barGap = 0.3, in tenths
barGapTenths == 3

-----------------------------------------------------------------------------
(* Values *)

None == <<>>

Some(x) == <<x>>

IsDef(o) == o # <<>>

Max(a, b) == IF a >= b THEN a ELSE b

Abs(a) == IF a >= 0 THEN a ELSE -a

RECURSIVE GCD(_, _)
GCD(a, b) == IF b = 0 THEN a ELSE GCD(b, a % b)

NaN == [n |-> 0, d |-> 0]

Rat(n, d) ==
    IF d = 0 THEN NaN
    ELSE LET g == GCD(Abs(n), Abs(d))
             s == IF d < 0 THEN -1 ELSE 1
         IN  [n |-> (s * n) \div g, d |-> (s * d) \div g]

Whole(i) == [n |-> i, d |-> 1]

IsNaN(x) == x.d = 0

\* a - b
NumSub(a, b) == IF IsNaN(a) \/ IsNaN(b) THEN NaN ELSE Rat(a.n * b.d - b.n * a.d, a.d * b.d)

-----------------------------------------------------------------------------
(* setViewModel *)

\* What the guard of lines 114-120 finds missing: the data view (dv, dv[0]),
\* its categorical section, its category column (categories, its source),
\* its values, its metadata.
InvalidShapes ==
    {"noDataView", "noCategorical", "noCategoryColumn", "noValues", "noMetadata"}

\* The guard of lines 114-120 lets the data view through.
Validates(dv) == dv.shape \notin InvalidShapes

\* array[i] (0-based i, here i+1): undefined past the end.
At(s, i) == IF i <= Len(s) THEN Some(s[i]) ELSE None

\* The loop bound taken as Math.min instead of Math.max.
BuildLengthMin(categories, values) ==
    IF Len(categories) <= Len(values) THEN Len(categories) ELSE Len(values)

BuildLength(categories, values) == Max(Len(categories), Len(values))

BuildPoints(categories, values) ==
    [i \in 1..BuildLength(categories, values) |->
        [category |-> At(categories, i), value |-> At(values, i)]]

\* d3.min in place of d3.max.
d3min(points) ==
    LET defined == {i \in 1..Len(points) : IsDef(points[i].value)}
    IN  IF defined = {} THEN None
        ELSE Some(CHOOSE m \in {points[i].value[1] : i \in defined} :
                    \A i \in defined : m <= points[i].value[1])

\* d3.max(points, d => d.value): undefined values are skipped; undefined when
\* none is left.
d3max(points) ==
    LET defined == {i \in 1..Len(points) : IsDef(points[i].value)}
    IN  IF defined = {} THEN None
        ELSE Some(CHOOSE m \in {points[i].value[1] : i \in defined} :
                    \A i \in defined : points[i].value[1] <= m)

BuildModel(categories, values) ==
    LET points == BuildPoints(categories, values)
    IN  [dataPoints |-> points, maxValue |-> d3max(points)]

EmptyModel == [dataPoints |-> <<>>, maxValue |-> Some(0)]

\* The fields after the call, and whether it raised.  A data view that fails
\* the guard returns the local empty model to a caller that drops it; one with
\* no second value column raises on lineValues.values after this.barModel is
\* assigned.
setViewModel(bm, lm, dv) ==
    IF ~Validates(dv)
    THEN [barModel |-> bm, lineModel |-> lm, raised |-> FALSE]
    ELSE IF dv.shape = "barOnly"
    THEN [barModel |-> Some(BuildModel(dv.categories, dv.bar)),
          lineModel |-> lm, raised |-> TRUE]
    ELSE [barModel |-> Some(BuildModel(dv.categories, dv.bar)),
          lineModel |-> Some(BuildModel(dv.categories, dv.line)),
          raised |-> FALSE]

-----------------------------------------------------------------------------
(* Scales *)

RECURSIVE Uniq(_)
Uniq(s) ==
    IF s = <<>> THEN <<>>
    ELSE LET r == Uniq(SubSeq(s, 1, Len(s) - 1))
             x == s[Len(s)]
         IN  IF \E i \in 1..Len(r) : r[i] = x THEN r ELSE Append(r, x)

\* ordinal.domain(points.map(d => d.category)): first occurrences, in order.
OrdinalDomain(points) == Uniq([i \in 1..Len(points) |-> points[i].category])

\* step = Math.floor((stop - start) / (k - padding + 2 * padding))
BandStep(range, k) == (10 * range) \div (10 * k + barGapTenths)

\* rangeBand = Math.round(step * (1 - padding))
RangeBand(step) == ((10 - barGapTenths) * step + 5) \div 10

\* Math.round((stop - start - (k - padding) * step) / 2)
BandOffset(range, k, step) ==
    (10 * range - (10 * k - barGapTenths) * step + 10) \div 20

\* rangeBand taken as the width of all k bands together.
RangeRoundBandsTotal(x0, x1, k) ==
    LET start == IF x1 < x0 THEN x1 ELSE x0
        stop  == IF x1 < x0 THEN x0 ELSE x1
        step  == BandStep(stop - start, k)
    IN  [k |-> k, step |-> step, reverse |-> x1 < x0,
         first |-> start + BandOffset(stop - start, k, step),
         rangeBand |-> k * RangeBand(step)]

\* ordinal.rangeRoundBands([x0, x1], barGap) over a domain of k values.
RangeRoundBands(x0, x1, k) ==
    LET start == IF x1 < x0 THEN x1 ELSE x0
        stop  == IF x1 < x0 THEN x0 ELSE x1
        step  == BandStep(stop - start, k)
    IN  [k |-> k, step |-> step, reverse |-> x1 < x0,
         first |-> start + BandOffset(stop - start, k, step),
         rangeBand |-> RangeBand(step)]

\* xScale(category): the band's start, undefined (NaN as an attribute) for a
\* value outside the domain.
OrdinalScale(domain, bands, category) ==
    IF \E i \in 1..Len(domain) : domain[i] = category
    THEN LET i == CHOOSE j \in 1..Len(domain) : domain[j] = category
             pos == IF bands.reverse THEN bands.k - i ELSE i - 1
         IN  Whole(bands.first + bands.step * pos)
    ELSE NaN

\* The range given as [top, height - bottom]: not inverted.
LinearScaleUpward(maxValue, height, value) ==
    LET r0 == paddingTop
        r1 == height - paddingBottom
    IN  IF ~IsDef(maxValue) \/ ~IsDef(value) THEN NaN
        ELSE IF maxValue[1] = 0 THEN Whole(r0)
        ELSE Rat(r0 * (maxValue[1] - value[1]) + r1 * value[1], maxValue[1])

\* d3.scale.linear().domain([0, maxValue]).range([height - bottom, top])(value)
LinearScale(maxValue, height, value) ==
    LET r0 == height - paddingBottom
        r1 == paddingTop
    IN  IF ~IsDef(maxValue) \/ ~IsDef(value) THEN NaN
        ELSE IF maxValue[1] = 0 THEN Whole(r0)
        ELSE Rat(r0 * (maxValue[1] - value[1]) + r1 * value[1], maxValue[1])

-----------------------------------------------------------------------------
(* The redraw *)

EnterId(old, i) ==
    LET used == {old[j].id : j \in 1..Len(old)}
        top  == IF used = {} THEN 0 ELSE CHOOSE m \in used : \A u \in used : u <= m
    IN  top + (i - Len(old))

\* The old rectangles dropped and one appended per data point.
JoinBarsRecreate(old, points) ==
    [i \in 1..Len(points) |-> EnterId(old, Len(old) + i)]

\* selectAll(".bar").data(points): the join is by index.  The first
\* min(old, new) elements stay, enter() appends one element per further data
\* point, exit().remove() drops the elements past the data.
JoinBars(old, points) ==
    [i \in 1..Len(points) |->
        IF i <= Len(old) THEN old[i].id ELSE EnterId(old, i)]

BarAttrs(bm, bands, domain, height, d) ==
    [width  |-> Whole(bands.rangeBand),
     height |-> NumSub(NumSub(Whole(height), LinearScale(bm.maxValue, height, d.value)),
                       Whole(paddingBottom)),
     y      |-> LinearScale(bm.maxValue, height, d.value),
     x      |-> OrdinalScale(domain, bands, d.category)]

\* The redraw without bars.exit().remove().
RenderBarsNoExit(old, bm, bands, domain, height) ==
    LET ids == JoinBars(old, bm.dataPoints)
    IN  [i \in 1..Len(ids) |->
            [id |-> ids[i], datum |-> bm.dataPoints[i],
             attrs |-> BarAttrs(bm, bands, domain, height, bm.dataPoints[i])]]
        \o SubSeq(old, Len(ids) + 1, Len(old))

RenderBars(old, bm, bands, domain, height) ==
    LET ids == JoinBars(old, bm.dataPoints)
    IN  [i \in 1..Len(ids) |->
            [id |-> ids[i], datum |-> bm.dataPoints[i],
             attrs |-> BarAttrs(bm, bands, domain, height, bm.dataPoints[i])]]

\* The redraw without the removal of the old path.
KeepLine(old) == old

\* lineGroup.select(".line").remove(): the first path, if any, goes.
RemoveLine(old) == IF old = <<>> THEN old ELSE Tail(old)

LinePath(lm, bands, domain, height) ==
    [translate |-> Rat(bands.rangeBand, 2),
     points |-> [i \in 1..Len(lm.dataPoints) |->
                    [x |-> OrdinalScale(domain, bands, lm.dataPoints[i].category),
                     y |-> LinearScale(lm.maxValue, height, lm.dataPoints[i].value)]]]

RenderLine(old, lm, bands, domain, height) ==
    Append(RemoveLine(old), LinePath(lm, bands, domain, height))

SvgAttrs(viewport) ==
    [width |-> viewport.width, height |-> viewport.height,
     xAxisY |-> viewport.height - paddingBottom,
     yAxisLeftX |-> paddingLeft,
     yAxisRightX |-> viewport.width - paddingRight]

InitSvg == [width |-> 0, height |-> 0, xAxisY |-> 0, yAxisLeftX |-> 0, yAxisRightX |-> 0]

-----------------------------------------------------------------------------
(* update *)

RemoveRow(dv, j) ==
    [shape |-> dv.shape,
     categories |-> SubSeq(dv.categories, 1, j - 1) \o SubSeq(dv.categories, j + 1, Len(dv.categories)),
     bar |-> SubSeq(dv.bar, 1, j - 1) \o SubSeq(dv.bar, j + 1, Len(dv.bar)),
     line |-> SubSeq(dv.line, 1, j - 1) \o SubSeq(dv.line, j + 1, Len(dv.line))]

\* What a caller making two calls in a row can tell of them: whether the second
\* repeated the first's arguments, and the rows whose removal from the first's
\* data view gives the second's (both calls returning normally, same viewport).
Observe(o, raises) ==
    [repeated |-> options = Some(o),
     removed  |->
        IF IsDef(options) /\ outcome = "ok" /\ ~raises
           /\ options[1].dataViews.shape = "full" /\ o.dataViews.shape = "full"
           /\ options[1].viewport = o.viewport
        THEN {j \in 1..Len(options[1].dataViews.categories) :
                 RemoveRow(options[1].dataViews, j) = o.dataViews}
        ELSE {}]

Update(o) ==
    \E sv \in {setViewModel(barModel, lineModel, o.dataViews)} :
    \E raises \in {sv.raised \/ ~IsDef(sv.barModel) \/ ~IsDef(sv.lineModel)} :
        /\ barModel' = sv.barModel
        /\ lineModel' = sv.lineModel
        /\ options' = Some(o)
        /\ history' = Observe(o, raises)
        /\ IF raises
           THEN /\ outcome' = "raised"
                /\ UNCHANGED <<svg, barGroup, lineGroup>>
           ELSE \E domain \in {OrdinalDomain(sv.barModel[1].dataPoints)} :
                \E bands \in {RangeRoundBands(paddingLeft,
                                              o.viewport.width - paddingRight,
                                              Len(domain))} :
                    /\ outcome' = "ok"
                    /\ svg' = SvgAttrs(o.viewport)
                    /\ barGroup' = RenderBars(barGroup, sv.barModel[1], bands, domain, o.viewport.height)
                    /\ lineGroup' = RenderLine(lineGroup, sv.lineModel[1], bands, domain, o.viewport.height)
        /\ UNCHANGED probe

-----------------------------------------------------------------------------
(* Inputs *)

InvalidDataView(shape) == [shape |-> shape, categories |-> <<>>, bar |-> <<>>, line |-> <<>>]

Column(rows, field) == [i \in 1..Len(rows) |-> rows[i][field]]

RowSeqs == UNION {[1..n -> Rows] : n \in 0..MaxRows}

\* Data views as the host builds them: columns of one length.
Tables ==
    {[shape |-> "full", categories |-> Column(r, "category"),
      bar |-> Column(r, "bar"), line |-> Column(r, "line")] : r \in RowSeqs}

\* A data view with one measure only: values[1] is undefined.
BarOnlyTables ==
    {[shape |-> "barOnly", categories |-> Column(r, "category"),
      bar |-> Column(r, "bar"), line |-> <<>>] : r \in RowSeqs}

DataViews == Tables \cup BarOnlyTables \cup {InvalidDataView(s) : s \in InvalidShapes}

Options == {[dataViews |-> dv, viewport |-> vp] : dv \in DataViews, vp \in Viewports}

ColumnsUpTo(S) == UNION {[1..n -> S] : n \in 0..MaxLen}

\* Valid data views whose columns have independent lengths.
RaggedDataViews ==
    {[shape |-> "full", categories |-> c, bar |-> b, line |-> l] :
        c \in ColumnsUpTo(Categories), b \in ColumnsUpTo(ColumnValues),
        l \in ColumnsUpTo(ColumnValues)}

RaggedOptions == {[dataViews |-> dv, viewport |-> vp] : dv \in RaggedDataViews, vp \in Viewports}

-----------------------------------------------------------------------------
(* Specifications *)

Init ==
    /\ barModel = None
    /\ lineModel = None
    /\ svg = InitSvg
    /\ barGroup = <<>>
    /\ lineGroup = <<>>
    /\ options = None
    /\ outcome = "constructed"
    /\ history = [repeated |-> FALSE, removed |-> {}]
    /\ probe = [range |-> 0, k |-> 0, rangeBand |-> 0, rangeBandNext |-> 0]

\* The host calls update, any number of times.
Next == \E o \in Options : Update(o)

Spec == Init /\ [][Next]_vars

\* The first update after construction, over ragged data views.
NextFirst == outcome = "constructed" /\ \E o \in RaggedOptions : Update(o)

SpecFirst == Init /\ [][NextFirst]_vars

\* The band scale alone: the band width for k and for k + 1 categories over
\* one horizontal range.
Probe ==
    /\ \E w \in MinRange..MaxRange, k \in 1..MaxBands :
          probe' = [range |-> w, k |-> k,
                    rangeBand |-> RangeRoundBands(paddingLeft, paddingLeft + w, k).rangeBand,
                    rangeBandNext |-> RangeRoundBands(paddingLeft, paddingLeft + w, k + 1).rangeBand]
    /\ UNCHANGED <<barModel, lineModel, svg, barGroup, lineGroup, options, outcome, history>>

SpecBand == Init /\ [][Probe]_vars

-----------------------------------------------------------------------------
(* Claims *)

Ids(group) == [i \in 1..Len(group) |-> group[i].id]

Geometry(group) == [i \in 1..Len(group) |-> group[i].attrs]

LastDataView == options[1].dataViews

LastViewport == options[1].viewport

\* C1: an update whose data view is empty or has no categorical section never
\* raises, whether it is the first update or follows others.
C1_EmptyUpdateNeverRaises ==
    (IsDef(options) /\ LastDataView.shape \in {"noDataView", "noCategorical"})
        => outcome # "raised"

\* C2: after an update whose data view fails validation and that returns, the
\* bar model used for the redraw is the empty model (no data points) and the
\* bar group holds no rectangle, whatever preceded it.
C2_InvalidUpdateDrawsEmptyBarModel ==
    (IsDef(options) /\ ~Validates(LastDataView) /\ outcome = "ok")
        => (barModel[1].dataPoints = <<>> /\ Len(barGroup) = 0)

\* The model setViewModel is to build from a category column and a value
\* column: max(c, s) points in source order, a field past the end of its
\* column undefined.
IsBuiltFrom(model, categories, values) ==
    LET c == Len(categories)
        s == Len(values)
    IN  /\ IsDef(model)
        /\ Len(model[1].dataPoints) = (IF c >= s THEN c ELSE s)
        /\ \A i \in 1..Len(model[1].dataPoints) :
              /\ model[1].dataPoints[i].category =
                    (IF i <= c THEN <<categories[i]>> ELSE <<>>)
              /\ model[1].dataPoints[i].value =
                    (IF i <= s THEN <<values[i]>> ELSE <<>>)

\* C3: a data view that passes validation gives, for each series, a model of
\* exactly max(c, s) points in source order, out-of-bounds fields undefined, and
\* no error; with all three columns of length n both models have n points and
\* the same category at every index.
C3_BuildsMaxLengthModels ==
    IsDef(options) =>
        /\ outcome = "ok"
        /\ IsBuiltFrom(barModel, LastDataView.categories, LastDataView.bar)
        /\ IsBuiltFrom(lineModel, LastDataView.categories, LastDataView.line)
        /\ (/\ Len(LastDataView.bar) = Len(LastDataView.categories)
            /\ Len(LastDataView.line) = Len(LastDataView.categories))
            => /\ Len(barModel[1].dataPoints) = Len(LastDataView.categories)
               /\ Len(lineModel[1].dataPoints) = Len(LastDataView.categories)
               /\ \A i \in 1..Len(LastDataView.categories) :
                     barModel[1].dataPoints[i].category = lineModel[1].dataPoints[i].category

C3_Witness ==
    /\ IsDef(options) /\ outcome = "ok"
    /\ Len(LastDataView.categories) = 1
    /\ Len(LastDataView.bar) = 2
    /\ Len(LastDataView.line) = 0
    /\ Len(barModel[1].dataPoints) = 2
    /\ Len(lineModel[1].dataPoints) = 1

DefinedValues(model) ==
    {model.dataPoints[i].value[1] :
        i \in {j \in 1..Len(model.dataPoints) : model.dataPoints[j].value # <<>>}}

MaxValueIsMaximum(model) ==
    Len(model.dataPoints) >= 1 =>
        IF DefinedValues(model) = {}
        THEN model.maxValue = <<>>
        ELSE /\ model.maxValue # <<>>
             /\ \A v \in DefinedValues(model) : v <= model.maxValue[1]
             /\ model.maxValue[1] \in DefinedValues(model)

\* C4: the maxValue of a model with at least one point, built from a valid data
\* view, is the maximum of its points' defined values: no defined value exceeds
\* it and one attains it (it is undefined when no value is defined).
C4_MaxValueIsMaximum ==
    (IsDef(options) /\ outcome = "ok") =>
        /\ MaxValueIsMaximum(barModel[1])
        /\ MaxValueIsMaximum(lineModel[1])

C4_Witness ==
    /\ IsDef(options) /\ outcome = "ok"
    /\ LastDataView.categories = <<"A", "B">>
    /\ LastDataView.bar = <<2>>
    /\ LastDataView.line = <<1, 2>>
    /\ barModel[1].maxValue = <<2>>
    /\ lineModel[1].maxValue = <<2>>

\* C5: in every reachable state the stored models are category-aligned: the
\* bar model's and the line model's points at a common index have the same
\* category.
C5_ModelsCategoryAligned ==
    (IsDef(barModel) /\ IsDef(lineModel)) =>
        \A i \in 1..Len(barModel[1].dataPoints) :
            i <= Len(lineModel[1].dataPoints) =>
                barModel[1].dataPoints[i].category = lineModel[1].dataPoints[i].category

\* C6: an update that repeats the previous update's data view and viewport
\* leaves the visual state as the previous update left it: as many bars and
\* line paths, with the same geometry.
C6_RepeatedUpdateIdempotent ==
    [][options' = options =>
          /\ Geometry(barGroup') = Geometry(barGroup)
          /\ lineGroup' = lineGroup
          /\ svg' = svg]_vars

C6_Witness ==
    /\ history.repeated
    /\ outcome = "ok"
    /\ Len(barGroup) = 2
    /\ Len(lineGroup) = 1

RemoveAt(s, j) == SubSeq(s, 1, j - 1) \o SubSeq(s, j + 1, Len(s))

\* C7 as stated: when an update's data view is the previous one's less one
\* category, the bar element of that category is the one removed, and every
\* other bar element is kept on its own category.
C7_RemovesBarOfRemovedCategory ==
    [][history'.removed # {} =>
          \E j \in history'.removed :
              /\ Ids(barGroup') = RemoveAt(Ids(barGroup), j)
              /\ \A i \in 1..Len(barGroup') : \A p \in 1..Len(barGroup) :
                    barGroup[p].id = barGroup'[i].id
                        => barGroup[p].datum.category = barGroup'[i].datum.category]_vars

\* C7, amended: when an update's data view is the previous one's less one
\* category, exactly one bar element is removed, the last in document order;
\* every other element is kept, none twice, and is bound to the data point at
\* its index in the new data view, at that point's category's band.
C7_RemovesLastBar ==
    [][history'.removed # {} =>
          /\ Len(barGroup) >= 1
          /\ Ids(barGroup') = SubSeq(Ids(barGroup), 1, Len(barGroup) - 1)
          /\ Cardinality({barGroup'[i].id : i \in 1..Len(barGroup')}) = Len(barGroup')
          /\ \A i \in 1..Len(barGroup') :
                /\ barGroup'[i].datum =
                      [category |-> <<options'[1].dataViews.categories[i]>>,
                       value |-> <<options'[1].dataViews.bar[i]>>]
                /\ \A p \in 1..Len(barGroup') :
                      (barGroup'[p].attrs.x = barGroup'[i].attrs.x)
                          <=> (barGroup'[p].datum.category = barGroup'[i].datum.category)]_vars

C7_Witness ==
    /\ history.removed = {1}
    /\ outcome = "ok"
    /\ Len(barGroup) = 1
    /\ barGroup[1].datum.category = <<"B">>

\* The bar of a data point with value v under a model with maximum m, in a
\* viewport of the given height: y on the line from (0, height - bottom) to
\* (m, top), height down to the bottom padding.
BarOnLeftScale(e, v, m, height) ==
    /\ e.attrs.y.d > 0
    /\ e.attrs.y.n * m = ((height - paddingBottom) * (m - v) + paddingTop * v) * e.attrs.y.d
    /\ e.attrs.height.d > 0
    /\ e.attrs.height.n * e.attrs.y.d =
          ((height - paddingBottom) * e.attrs.y.d - e.attrs.y.n) * e.attrs.height.d

InLeftDomain(d, m) == d.value # <<>> /\ m # <<>> /\ 0 <= d.value[1] /\ d.value[1] <= m[1]

\* C8 as stated: a bar whose value v lies in [0, maxValue] has y = leftScale(v)
\* and height = viewportHeight - leftScale(v) - bottomPadding; value 0 gives
\* height 0 and value maxValue gives viewportHeight - topPadding - bottomPadding,
\* also in a model whose maxValue is 0.
C8_BarGeometry ==
    (IsDef(options) /\ outcome = "ok") =>
        \A i \in 1..Len(barGroup) :
            LET d == barModel[1].dataPoints[i]
                m == barModel[1].maxValue
                e == barGroup[i]
            IN  InLeftDomain(d, m) =>
                    /\ m[1] > 0 => BarOnLeftScale(e, d.value[1], m[1], LastViewport.height)
                    /\ d.value[1] = 0 => e.attrs.height = [n |-> 0, d |-> 1]
                    /\ d.value[1] = m[1] =>
                          e.attrs.height =
                              [n |-> LastViewport.height - paddingTop - paddingBottom, d |-> 1]

\* C8, amended: as stated for every model whose maxValue is positive; in a
\* model whose maxValue is 0 every bar of value 0 sits on the bottom of the
\* range with height 0.
C8_BarGeometryPositiveMax ==
    (IsDef(options) /\ outcome = "ok") =>
        \A i \in 1..Len(barGroup) :
            LET d == barModel[1].dataPoints[i]
                m == barModel[1].maxValue
                e == barGroup[i]
            IN  InLeftDomain(d, m) =>
                    /\ m[1] > 0 => BarOnLeftScale(e, d.value[1], m[1], LastViewport.height)
                    /\ d.value[1] = 0 =>
                          /\ e.attrs.height = [n |-> 0, d |-> 1]
                          /\ e.attrs.y = [n |-> LastViewport.height - paddingBottom, d |-> 1]
                    /\ (d.value[1] = m[1] /\ m[1] > 0) =>
                          /\ e.attrs.height =
                                [n |-> LastViewport.height - paddingTop - paddingBottom, d |-> 1]
                          /\ e.attrs.y = [n |-> paddingTop, d |-> 1]

C8_Witness ==
    /\ IsDef(options) /\ outcome = "ok"
    /\ Len(barGroup) = 2
    /\ barModel[1].maxValue = <<2>>
    /\ barModel[1].dataPoints[1].value = <<1>>
    /\ barModel[1].dataPoints[2].value = <<2>>
    /\ barGroup[1].attrs.y.d = 2
    /\ LastViewport.height = 131

\* C9 as stated: over one horizontal range the band width for k + 1 categories
\* is strictly smaller than for k, for every k >= 1.
C9_BandStrictlyDecreases ==
    probe.k >= 1 => probe.rangeBandNext < probe.rangeBand

\* C9, amended: over one horizontal range the band width for k + 1 categories
\* is never larger than for k, for every k >= 1 (the rounded widths may tie).
C9_BandNeverIncreases ==
    probe.k >= 1 => probe.rangeBandNext <= probe.rangeBand

C9_Witness ==
    /\ probe.k >= 1
    /\ probe.rangeBand > 0
    /\ probe.rangeBandNext = probe.rangeBand

\* C10: after every update that returns, the bar group holds one rectangle per
\* data point of the stored bar model and the line group exactly one path; in
\* every reachable state the line group holds at most one path.
C10_NoElementAccumulation ==
    /\ Len(lineGroup) <= 1
    /\ outcome = "ok" =>
          /\ Len(barGroup) = Len(barModel[1].dataPoints)
          /\ Len(lineGroup) = 1

C10_Witness ==
    /\ outcome = "ok"
    /\ ~Validates(LastDataView)
    /\ history.repeated
    /\ Len(barGroup) = 2
    /\ Len(lineGroup) = 1

====
